---------------------------- MODULE Spec2Model ----------------------------
(***************************************************************************)
(* Model of the logging handlers of handler.go: NullHandler, StreamHandler *)
(* and FileHandler, their Handle -> Filter -> Emit pipeline, the mutex     *)
(* taken in Handle, and the open/close life cycle of the file sink.        *)
(*                                                                         *)
(* Every method of StreamHandler and FileHandler has a VALUE receiver      *)
(* ("func (self StreamHandler) Handle"), so each call works on a copy of   *)
(* the handler struct, the mutex field included.  The copy is the variable *)
(* frame[c].self of the calling goroutine c.  Out of a FileHandler is a    *)
(* pointer to os.File, so the copies share the file descriptor.            *)
(***************************************************************************)
EXTENDS Integers, Sequences, FiniteSets, TLC

\* ------------------------------------------------------------- bounds
NumCallers == 2
MaxCalls == 2
MaxLevel == 1

Callers == 1..NumCallers
Levels == 0..MaxLevel

\* LogRecord.Level is compared with the handler's Level, an int: a record
\* may carry a Level below every threshold a handler is built with.
RecordLevels == (0 - 1)..MaxLevel

\* ---------------------------------------------------- handler instances
NullIds == {"null"}
StreamIds == {"stream"}
FileIds == {"file1", "file2"}
HandlerIds == NullIds \cup StreamIds \cup FileIds

GoodPath == "app.log"
BadPath == "/missing/app.log"
Paths == {GoodPath, BadPath}

\* os.Stderr, a caller-supplied io.Writer without locking of its own
\* (a bytes.Buffer), and the file behind GoodPath.
Sinks == {"stderr", "buf", GoodPath}
StreamOuts == {"stderr", "buf"}

\* The sets of handlers a program of the model builds: a NullHandler, a
\* StreamHandler beside a FileHandler, two FileHandlers.
Deployments == {{"null"}, {"stream", "file1"}, {"file1", "file2"}}

Absent == [kind |-> "absent"]
NoPanic == ""
NoFd == [state |-> "none", path |-> "", append |-> FALSE, off |-> 0]
OldLine == <<"old", "", 0>>
GarbledLine == <<"garbled", "", 0>>

VARIABLES
    handlers,   \* handler id -> the handler struct (or Absent)
    fds,        \* file handler id -> the *os.File its Out points to
    sink,       \* sink -> the lines it holds, oldest first
    panicked,   \* the path in the panic that ended the process, "" while it runs
    pc,         \* caller -> where it is in Handle
    frame,      \* caller -> the locals of its Handle call (self, record, msg, err)
    closeRet,   \* handler id -> what its last Close call returned (history)
    hist,       \* call number -> what that call was, did and returned (history)
    emitted,    \* file handler id -> lines its writes put in the file (history)
    overlap     \* some Handle call began while another was in progress (history)

vars == <<handlers, fds, sink, panicked, pc, frame, closeRet, hist, emitted, overlap>>

NoRecord == [Level |-> 0, bad |-> FALSE]
NoFrame == [self |-> Absent, id |-> 0, record |-> NoRecord,
            msg |-> <<>>, err |-> "nil", pos |-> 0]

\* ------------------------------------------------------------ helpers
Count(seq, x) == Cardinality({i \in DOMAIN seq : seq[i] = x})

RECURSIVE IsSubSeq(_, _)
IsSubSeq(s, t) ==
    IF s = <<>> THEN TRUE
    ELSE IF t = <<>> THEN FALSE
    ELSE IF Head(s) = Head(t) THEN IsSubSeq(Tail(s), Tail(t))
    ELSE IsSubSeq(s, Tail(t))

\* The sink behind an Out value: a stream is its own sink, a file
\* descriptor leads to the file at its path.
SinkOf(out) == IF out \in FileIds THEN fds[out].path ELSE out

\* Formatter.Format(record) -> (string, error).  A formatter that fails
\* still returns a (partial) string.
Format(formatter, id, record) ==
    IF record.bad
    THEN [msg |-> <<"partial", formatter, id>>, err |-> "format failed"]
    ELSE [msg |-> <<"msg", formatter, id>>, err |-> "nil"]

DiagLine(id) == <<"diag", "", id>>

\* The file exists before the program starts and holds one line; the
\* streams are empty.
InitSink == [s \in Sinks |-> IF s = GoodPath THEN <<OldLine>> ELSE <<>>]

\* ----------------------------------------------------------- Init
Init ==
    /\ handlers = [h \in HandlerIds |-> Absent]
    /\ fds = [h \in FileIds |-> NoFd]
    /\ sink = InitSink
    /\ panicked = NoPanic
    /\ pc = [c \in Callers |-> "idle"]
    /\ frame = [c \in Callers |-> NoFrame]
    /\ closeRet = [h \in HandlerIds |-> "none"]
    /\ hist = <<>>
    /\ emitted = [h \in FileIds |-> <<>>]
    /\ overlap = FALSE

\* ------------------------------------------------------ constructors
\* (mutant) the handler is built with the threshold 1.
NewStreamHandlerValueLevelOne(name) ==
    [kind |-> "stream", Name |-> name, Out |-> "stderr",
     Formatter |-> "TerminalFormatter", Level |-> 1, mu |-> FALSE]

\* NewStreamHandler(name)
NewStreamHandlerValue(name) ==
    [kind |-> "stream", Name |-> name, Out |-> "stderr",
     Formatter |-> "TerminalFormatter", Level |-> 0, mu |-> FALSE]

\* The handlers are built, and their exported fields set, before the
\* first call is made.
Setup == panicked = NoPanic /\ hist = <<>> /\ \A h \in HandlerIds : closeRet[h] = "none"

Built == {h \in HandlerIds : handlers[h] # Absent}
CanBuild(name) ==
    /\ handlers[name] = Absent
    /\ \E d \in Deployments : Built \cup {name} \subseteq d

\* NullHandler{Name: name}
NewNullHandler(name) ==
    /\ Setup
    /\ CanBuild(name)
    /\ handlers' = [handlers EXCEPT ![name] = [kind |-> "null", Name |-> name]]
    /\ UNCHANGED <<fds, sink, panicked, pc, frame, closeRet, hist, emitted, overlap>>

NewStreamHandler(name) ==
    /\ Setup
    /\ CanBuild(name)
    /\ handlers' = [handlers EXCEPT ![name] = NewStreamHandlerValue(name)]
    /\ UNCHANGED <<fds, sink, panicked, pc, frame, closeRet, hist, emitted, overlap>>

\* (mutant) the file is opened without O_APPEND.
OpenFileNoAppend(path) ==
    IF path = GoodPath
    THEN [file |-> [state |-> "open", path |-> path, append |-> FALSE, off |-> 0],
          err |-> "nil"]
    ELSE [file |-> NoFd, err |-> "open failed"]

\* os.OpenFile(path, os.O_WRONLY|os.O_APPEND|os.O_CREATE, 0660): the
\* descriptor, positioned at 0 and in append mode, or an error when the
\* path cannot be opened.
OpenFile(path) ==
    IF path = GoodPath
    THEN [file |-> [state |-> "open", path |-> path, append |-> TRUE, off |-> 0],
          err |-> "nil"]
    ELSE [file |-> NoFd, err |-> "open failed"]

NewFileHandlerValue(name, path) ==
    [kind |-> "file", Name |-> name, Out |-> name, Path |-> path,
     Formatter |-> "DefaultFormatter", Level |-> 0, mu |-> FALSE]

\* (mutant) the error of the open is ignored and a handler is returned.
NewFileHandlerNoPanic(name, path, opened) ==
    /\ handlers' = [handlers EXCEPT ![name] = NewFileHandlerValue(name, path)]
    /\ fds' = [fds EXCEPT ![name] = opened.file]
    /\ UNCHANGED panicked

\* What NewFileHandler does after the open:
\* panic(fmt.Errorf("can not open file %s", path)), or build the handler.
NewFileHandlerResult(name, path, opened) ==
    IF opened.err # "nil"
    THEN /\ panicked' = path
         /\ UNCHANGED <<handlers, fds>>
    ELSE /\ handlers' = [handlers EXCEPT ![name] = NewFileHandlerValue(name, path)]
         /\ fds' = [fds EXCEPT ![name] = opened.file]
         /\ UNCHANGED panicked

NewFileHandler(name, path) ==
    /\ Setup
    /\ CanBuild(name)
    /\ NewFileHandlerResult(name, path, OpenFile(path))
    /\ UNCHANGED <<sink, pc, frame, closeRet, hist, emitted, overlap>>

\* The caller sets the exported fields Level and Out of a handler it has
\* just built.
Configure(h, level, out) ==
    /\ Setup
    /\ handlers[h].kind \in {"stream", "file"}
    /\ handlers[h].Level = 0
    /\ handlers[h].Out = (IF h \in FileIds THEN h ELSE "stderr")
    /\ IF h \in FileIds THEN out = h /\ level # 0
       ELSE out \in StreamOuts /\ (level # 0 \/ out # "stderr")
    /\ handlers' = [handlers EXCEPT ![h].Level = level, ![h].Out = out]
    /\ UNCHANGED <<fds, sink, panicked, pc, frame, closeRet, hist, emitted, overlap>>

\* ------------------------------------------------------------ Filter
NullFilter(self, record) == TRUE

\* (mutant) the comparison includes the threshold.
StreamFilterAtOrBelow(self, record) == IF record.Level <= self.Level THEN TRUE ELSE FALSE

StreamFilter(self, record) == IF record.Level < self.Level THEN TRUE ELSE FALSE

\* (mutant) the comparison includes the threshold.
FileFilterAtOrBelow(self, record) == IF record.Level <= self.Level THEN TRUE ELSE FALSE

FileFilter(self, record) == IF record.Level < self.Level THEN TRUE ELSE FALSE

\* Handler.Filter, dispatched on the concrete type.
Filter(self, record) ==
    CASE self.kind = "null" -> NullFilter(self, record)
      [] self.kind = "stream" -> StreamFilter(self, record)
      [] self.kind = "file" -> FileFilter(self, record)

Records == [Level : RecordLevels, bad : BOOLEAN]
BoolStr(b) == IF b THEN "true" ELSE "false"

\* What hist keeps of a call: the method, the handler, the record's Level,
\* what Filter said, whether the call has returned and what it returned,
\* and for a Handle call what the Formatter and the write of the line
\* returned ("none": not called), and whether a Close of the handler had
\* returned when the call was made.
HistEntry(op, h, record, filtered, st, val) ==
    [op |-> op, h |-> h, Level |-> record.Level, filtered |-> filtered,
     st |-> st, val |-> val, ferr |-> "none", werr |-> "none",
     closed |-> (closeRet[h] # "none")]

\* A direct call of h.Filter(record).  StreamHandler.Handle and
\* FileHandler.Handle call Filter themselves (FilterThenLock);
\* NullHandler.Handle does not, so its Filter is called here.
FilterCall(h, record) ==
    /\ panicked = NoPanic
    /\ handlers[h].kind = "null"
    /\ Len(hist) < MaxCalls
    /\ LET filtered == Filter(handlers[h], record)
       IN  hist' = Append(hist, HistEntry("Filter", h, record, filtered, "done",
                                          BoolStr(filtered)))
    /\ UNCHANGED <<handlers, fds, sink, panicked, pc, frame, closeRet, emitted, overlap>>

\* ------------------------------------------------------------ Handle
Busy(c) == \E d \in Callers \ {c} : pc[d] # "idle"

\* (mutant) Handle of the NullHandler prints the record on os.Stderr.
NullHandlePrints(c, h, record) ==
    /\ hist' = Append(hist, HistEntry("Handle", h, NoRecord, FALSE, "done", ""))
    /\ sink' = [sink EXCEPT !["stderr"] = Append(@, <<"msg", "", Len(hist) + 1>>)]
    /\ UNCHANGED <<pc, frame>>

\* NullHandler.Handle: does nothing (its record parameter has no name).
NullHandle(c, h, record) ==
    /\ hist' = Append(hist, HistEntry("Handle", h, NoRecord, FALSE, "done", ""))
    /\ UNCHANGED <<pc, frame, sink>>

\* (mutant) Filter lowers the Level of the record it lets through to 0.
FilterThenLockClampsRecord(c, h, record) ==
    LET self == handlers[h]
        filtered == Filter(self, record)
    IN  IF filtered
        THEN /\ hist' = Append(hist, HistEntry("Handle", h, record, TRUE, "done", ""))
             /\ UNCHANGED <<pc, frame, sink>>
        ELSE /\ hist' = Append(hist, HistEntry("Handle", h, record, FALSE, "run", ""))
             /\ pc' = [pc EXCEPT ![c] = "lock"]
             /\ frame' = [frame EXCEPT ![c] =
                            [NoFrame EXCEPT !.self = self, !.id = Len(hist) + 1,
                                            !.record = [record EXCEPT !.Level = 0]]]
             /\ UNCHANGED sink

\* (mutant) the record is formatted before Filter is asked.
FormatThenFilter(c, h, record) ==
    LET self == handlers[h]
        filtered == Filter(self, record)
        f == Format(self.Formatter, Len(hist) + 1, record)
    IN  IF filtered
        THEN /\ hist' = Append(hist, [HistEntry("Handle", h, record, TRUE, "done", "")
                                        EXCEPT !.ferr = f.err])
             /\ UNCHANGED <<pc, frame, sink>>
        ELSE /\ hist' = Append(hist, HistEntry("Handle", h, record, FALSE, "run", ""))
             /\ pc' = [pc EXCEPT ![c] = "lock"]
             /\ frame' = [frame EXCEPT ![c] =
                            [NoFrame EXCEPT !.self = self, !.id = Len(hist) + 1,
                                            !.record = record]]
             /\ UNCHANGED sink

\* StreamHandler.Handle / FileHandler.Handle up to the lock: the receiver
\* is copied, Filter runs on the copy, a suppressed record returns at once.
FilterThenLock(c, h, record) ==
    LET self == handlers[h]
        filtered == Filter(self, record)
    IN  IF filtered
        THEN /\ hist' = Append(hist, HistEntry("Handle", h, record, TRUE, "done", ""))
             /\ UNCHANGED <<pc, frame, sink>>
        ELSE /\ hist' = Append(hist, HistEntry("Handle", h, record, FALSE, "run", ""))
             /\ pc' = [pc EXCEPT ![c] = "lock"]
             /\ frame' = [frame EXCEPT ![c] =
                            [NoFrame EXCEPT !.self = self, !.id = Len(hist) + 1,
                                            !.record = record]]
             /\ UNCHANGED sink

Handle(c, h, record) ==
    /\ panicked = NoPanic
    /\ pc[c] = "idle"
    /\ handlers[h] # Absent
    /\ Len(hist) < MaxCalls
    /\ IF handlers[h].kind = "null"
       THEN NullHandle(c, h, record)
       ELSE FilterThenLock(c, h, record)
    /\ overlap' = (overlap \/ Busy(c))
    /\ UNCHANGED <<handlers, fds, panicked, closeRet, emitted>>

\* The mutex that self.mu.Lock() and self.mu.Unlock() act on: the mu field
\* of the receiver's copy.
MutexOf(c) == frame[c].self.mu

\* (mutant) the formatter's error is dropped, nothing is reported.
AfterFormatNoReport(err) == "write"

\* (mutant) Emit takes the mutex again, which its caller holds.
AfterFormatRelock(err) == "lock"

\* msg, err := self.Formatter.Format(record), and where Emit goes next.
AfterFormat(err) == IF err # "nil" THEN "report" ELSE "write"

\* self.mu.Lock(), then the first statement of Emit: the record is
\* formatted.  Format touches nothing shared, so both are one step.
Lock(c) ==
    /\ pc[c] = "lock"
    /\ MutexOf(c) = FALSE
    /\ LET f == Format(frame[c].self.Formatter, frame[c].id, frame[c].record)
       IN  /\ frame' = [frame EXCEPT ![c].self.mu = TRUE, ![c].msg = f.msg,
                                     ![c].err = f.err]
           /\ pc' = [pc EXCEPT ![c] = AfterFormat(f.err)]
           /\ hist' = [hist EXCEPT ![frame[c].id].ferr = f.err]
    /\ UNCHANGED <<handlers, fds, sink, panicked, closeRet, emitted, overlap>>

\* fmt.Fprintf(os.Stderr, "Format record failed, [%v]\n", err)
EmitReport(c) ==
    /\ pc[c] = "report"
    /\ sink' = [sink EXCEPT !["stderr"] = Append(@, DiagLine(frame[c].id))]
    /\ pc' = [pc EXCEPT ![c] = "write"]
    /\ UNCHANGED <<handlers, fds, panicked, frame, closeRet, hist, emitted, overlap>>

\* (mutant) Handle hands the error of the write back to its caller.
ReturnSurfacesError(c, werr) ==
    /\ pc' = [pc EXCEPT ![c] = "idle"]
    /\ frame' = [frame EXCEPT ![c] = NoFrame]
    /\ hist' = [hist EXCEPT ![frame[c].id].werr = werr, ![frame[c].id].st = "done",
                            ![frame[c].id].val = IF werr = "nil" THEN "" ELSE werr]

\* Emit returns, the deferred self.mu.Unlock() runs on the copy, Handle
\* returns and the copy is gone.  werr is what Fprintln returned, which
\* Emit drops.
Return(c, werr) ==
    /\ pc' = [pc EXCEPT ![c] = "idle"]
    /\ frame' = [frame EXCEPT ![c] = NoFrame]
    /\ hist' = [hist EXCEPT ![frame[c].id].werr = werr, ![frame[c].id].st = "done"]

\* (mutant) the write empties the file first.
FileWriteTruncates(f, content, line) == [content |-> <<line>>, off |-> 1]

\* fmt.Fprintln(self.Out, msg): one Write call with the line.
\*
\* Out is an os.File.  The write of an open descriptor is one atomic step
\* (os.File serialises its writes, O_APPEND puts each at the end of the
\* file); the system may refuse it (disk full).  A closed descriptor
\* refuses every write.
FileWrite(f, content, line) ==
    IF f.append
    THEN [content |-> Append(content, line), off |-> Len(content) + 1]
    ELSE [content |-> SubSeq(content, 1, f.off) \o <<line>>
                        \o SubSeq(content, f.off + 2, Len(content)),
          off |-> f.off + 1]

\* (mutant) a write the file refuses is reported on os.Stderr.
EmitWriteFileReportsDrop(c) ==
    /\ pc[c] = "write"
    /\ frame[c].self.Out \in FileIds
    /\ LET out == frame[c].self.Out
           f == fds[out]
           w == FileWrite(f, sink[f.path], frame[c].msg)
       IN  \E ok \in BOOLEAN :
             IF f.state = "open" /\ ok
             THEN /\ sink' = [sink EXCEPT ![f.path] = w.content]
                  /\ fds' = [fds EXCEPT ![out].off = w.off]
                  /\ emitted' = [emitted EXCEPT ![out] = Append(@, frame[c].msg)]
                  /\ Return(c, "nil")
             ELSE /\ Return(c, "err")
                  /\ sink' = [sink EXCEPT !["stderr"] = Append(@, DiagLine(frame[c].id))]
                  /\ UNCHANGED <<fds, emitted>>
    /\ UNCHANGED <<handlers, panicked, closeRet, overlap>>

EmitWriteFile(c) ==
    /\ pc[c] = "write"
    /\ frame[c].self.Out \in FileIds
    /\ LET out == frame[c].self.Out
           f == fds[out]
           w == FileWrite(f, sink[f.path], frame[c].msg)
       IN  \E ok \in BOOLEAN :
             IF f.state = "open" /\ ok
             THEN /\ sink' = [sink EXCEPT ![f.path] = w.content]
                  /\ fds' = [fds EXCEPT ![out].off = w.off]
                  /\ emitted' = [emitted EXCEPT ![out] = Append(@, frame[c].msg)]
                  /\ Return(c, "nil")
             ELSE /\ Return(c, "err")
                  /\ UNCHANGED <<sink, fds, emitted>>
    /\ UNCHANGED <<handlers, panicked, closeRet, overlap>>

\* Out is os.Stderr: an os.File too, one atomic append per write.
EmitWriteStderr(c) ==
    /\ pc[c] = "write"
    /\ frame[c].self.Out = "stderr"
    /\ sink' = [sink EXCEPT !["stderr"] = Append(@, frame[c].msg)]
    /\ Return(c, "nil")
    /\ UNCHANGED <<handlers, fds, panicked, closeRet, emitted, overlap>>

\* Out is a writer with no locking of its own.  Its Write reads the end
\* of the buffer, then stores the line there: two steps.
EmitWriteBufBegin(c) ==
    /\ pc[c] = "write"
    /\ frame[c].self.Out = "buf"
    /\ frame' = [frame EXCEPT ![c].pos = Len(sink["buf"])]
    /\ pc' = [pc EXCEPT ![c] = "writing"]
    /\ UNCHANGED <<handlers, fds, sink, panicked, closeRet, hist, emitted, overlap>>

\* The second step.  When another Write moved the end in between, the two
\* Writes raced: the line is appended after all, or stored over the other
\* line, or the bytes of both are mixed.
Overwrite(content, pos, line) ==
    SubSeq(content, 1, pos) \o <<line>> \o SubSeq(content, pos + 2, Len(content))

BufOutcomes(content, pos, line) ==
    IF Len(content) = pos
    THEN {Append(content, line)}
    ELSE {Append(content, line), Overwrite(content, pos, line),
          Overwrite(content, pos, GarbledLine)}

EmitWriteBufEnd(c) ==
    /\ pc[c] = "writing"
    /\ \E ok \in BOOLEAN :
         IF ok
         THEN /\ \E new \in BufOutcomes(sink["buf"], frame[c].pos, frame[c].msg) :
                    sink' = [sink EXCEPT !["buf"] = new]
              /\ Return(c, "nil")
         ELSE /\ Return(c, "err")
              /\ UNCHANGED sink
    /\ UNCHANGED <<handlers, fds, panicked, closeRet, emitted, overlap>>

\* ------------------------------------------------- Emit, called directly
\* NullHandler.Emit: does nothing.
NullEmit(h, record) ==
    /\ panicked = NoPanic
    /\ handlers[h].kind = "null"
    /\ Len(hist) < MaxCalls
    /\ hist' = Append(hist, HistEntry("Emit", h, NoRecord, FALSE, "done", ""))
    /\ UNCHANGED <<handlers, fds, sink, panicked, pc, frame, closeRet, emitted, overlap>>

\* ------------------------------------------------------------- Close
\* (mutant) Close returns nil and leaves the descriptor open.
FileCloseLeavesOpen(f) == [file |-> f, err |-> "nil"]

\* (mutant) the first Close closes the descriptor and returns an error.
FileCloseAlwaysFails(f) ==
    IF f.state = "open"
    THEN [file |-> [f EXCEPT !.state = "closed"], err |-> "err"]
    ELSE [file |-> f, err |-> "err"]

\* os.File.Close: the first call closes the descriptor, a later one
\* returns os.ErrClosed.
FileClose(f) ==
    IF f.state = "open"
    THEN [file |-> [f EXCEPT !.state = "closed"], err |-> "nil"]
    ELSE [file |-> f, err |-> "err"]

\* (mutant) Close closes every open descriptor, not only the handler's.
CloseEffectAll(h, closed) ==
    /\ fds' = [k \in FileIds |->
                 IF k = h THEN closed.file
                 ELSE IF fds[k].state = "open" THEN [fds[k] EXCEPT !.state = "closed"]
                 ELSE fds[k]]
    /\ closeRet' = [closeRet EXCEPT ![h] = closed.err]

\* FileHandler.Close: return self.Out.Close().  No lock is taken.
CloseEffect(h, closed) ==
    /\ fds' = [fds EXCEPT ![h] = closed.file]
    /\ closeRet' = [closeRet EXCEPT ![h] = closed.err]

\* (mutant) Close of a FileHandler waits until no Handle call on the
\* handler is in progress.
CloseWaitsForHandle(h) ==
    /\ panicked = NoPanic
    /\ handlers[h] # Absent
    /\ IF handlers[h].kind = "file"
       THEN /\ \A c \in Callers : pc[c] = "idle" \/ frame[c].self.Name # h
            /\ CloseEffect(h, FileClose(fds[handlers[h].Out]))
       ELSE /\ closeRet' = [closeRet EXCEPT ![h] = "nil"]
            /\ UNCHANGED fds
    /\ UNCHANGED <<handlers, sink, panicked, pc, frame, hist, emitted, overlap>>

\* NullHandler.Close, StreamHandler.Close: return nil.
Close(h) ==
    /\ panicked = NoPanic
    /\ handlers[h] # Absent
    /\ IF handlers[h].kind = "file"
       THEN CloseEffect(h, FileClose(fds[handlers[h].Out]))
       ELSE /\ closeRet' = [closeRet EXCEPT ![h] = "nil"]
            /\ UNCHANGED fds
    /\ UNCHANGED <<handlers, sink, panicked, pc, frame, hist, emitted, overlap>>

\* -------------------------------------------------------------- Next
Next ==
    \/ \E name \in NullIds : NewNullHandler(name)
    \/ \E name \in StreamIds : NewStreamHandler(name)
    \/ \E name \in FileIds, path \in Paths : NewFileHandler(name, path)
    \/ \E h \in StreamIds \cup FileIds, level \in Levels, out \in StreamOuts \cup FileIds :
         Configure(h, level, out)
    \/ \E h \in NullIds, record \in Records : FilterCall(h, record)
    \/ \E c \in Callers, h \in HandlerIds, record \in Records : Handle(c, h, record)
    \/ \E c \in Callers : Lock(c)
    \/ \E c \in Callers : EmitReport(c)
    \/ \E c \in Callers : EmitWriteFile(c)
    \/ \E c \in Callers : EmitWriteStderr(c)
    \/ \E c \in Callers : EmitWriteBufBegin(c)
    \/ \E c \in Callers : EmitWriteBufEnd(c)
    \/ \E h \in NullIds, record \in Records : NullEmit(h, record)
    \/ \E h \in HandlerIds : Close(h)

Spec == Init /\ [][Next]_vars

\* The statements of a Handle call in progress: a goroutine that can take
\* its next step is scheduled in the end, and every Format call and sink
\* write returns.
CallStep(c) ==
    \/ Lock(c)
    \/ EmitReport(c)
    \/ EmitWriteFile(c)
    \/ EmitWriteStderr(c)
    \/ EmitWriteBufBegin(c)
    \/ EmitWriteBufEnd(c)

FairSpec == Spec /\ \A c \in Callers : WF_vars(CallStep(c))

\* ======================================================= properties
Idle == \A c \in Callers : pc[c] = "idle"

\* The Handle calls made on handler h, by call number.
HandleCalls(h) == {i \in DOMAIN hist : hist[i].op = "Handle" /\ hist[i].h = h}

Writers == {h \in StreamIds \cup FileIds : handlers[h] # Absent}

\* The sink handler h writes to.
OutSink(h) == SinkOf(handlers[h].Out)

\* How many message lines of call i the sequence of lines holds.
IsMsgOf(line, i) == line[3] = i /\ line[1] \in {"msg", "partial"}
NumLines(lines, i) == Cardinality({j \in DOMAIN lines : IsMsgOf(lines[j], i)})

\* A caller is inside Emit from the Lock of its Handle call to its return.
InEmit(c) == pc[c] \in {"report", "write", "writing"}

\* C1: for one StreamHandler or FileHandler, at most one caller is inside
\* Emit at any time: two callers that are both inside Emit are in calls on
\* different handlers.
C1_OneCallerInEmit ==
    \A c, d \in Callers :
        (c # d /\ InEmit(c) /\ InEmit(d)) => frame[c].self.Name # frame[d].self.Name

\* C2: once the concurrent Handle calls on a handler have returned, the
\* sink holds exactly one complete line for every unsuppressed call whose
\* write was accepted, and no line made of the bytes of two.
C2_LinesAtomic ==
    Idle =>
        /\ \A h \in Writers : \A i \in HandleCalls(h) :
             (~hist[i].filtered /\ hist[i].werr = "nil")
                 => NumLines(sink[OutSink(h)], i) = 1
        /\ \A s \in Sinks : \A j \in DOMAIN sink[s] : sink[s][j] # GarbledLine

\* The calls that call Filter: the direct ones, and Handle of a
\* StreamHandler or FileHandler.
CallsFilter(i) ==
    \/ hist[i].op = "Filter"
    \/ (hist[i].op = "Handle" /\ handlers[hist[i].h].kind \in {"stream", "file"})

\* C3 as stated: every handler, a NullHandler too, has a threshold among
\* the levels such that Filter returns true exactly for the records whose
\* Level is strictly below it (the Level field where the handler has one).
Thresholds(h) == IF handlers[h].kind = "null" THEN Levels ELSE {handlers[h].Level}

C3_FilterIffBelowLevel ==
    \A h \in HandlerIds : handlers[h] # Absent =>
        \E threshold \in Thresholds(h) :
            \A i \in DOMAIN hist :
                (hist[i].h = h /\ CallsFilter(i))
                    => (hist[i].filtered <=> hist[i].Level < threshold)

\* C3, amended: Filter of a StreamHandler or FileHandler returns true
\* exactly when the record's Level is strictly below the handler's Level
\* (a record at the threshold is not suppressed); Filter of a NullHandler
\* returns true for every record.
C3_FilterByVariant ==
    \A i \in DOMAIN hist :
        LET h == hist[i].h
        IN  /\ (hist[i].op = "Filter" /\ handlers[h].kind = "null")
                   => hist[i].filtered /\ hist[i].val = "true"
            /\ (hist[i].op = "Handle" /\ handlers[h].kind \in {"stream", "file"})
                   => (hist[i].filtered <=> hist[i].Level < handlers[h].Level)

\* A record at a non-zero threshold has passed a StreamHandler and one
\* below the threshold was suppressed by a FileHandler.
C3_Witness ==
    \E i, j \in DOMAIN hist :
        /\ hist[i].op = "Handle" /\ handlers[hist[i].h].kind = "stream"
        /\ handlers[hist[i].h].Level > 0 /\ hist[i].Level = handlers[hist[i].h].Level
        /\ ~hist[i].filtered
        /\ hist[j].op = "Handle" /\ handlers[hist[j].h].kind = "file"
        /\ hist[j].Level < handlers[hist[j].h].Level /\ hist[j].filtered

\* The write of call i on h was not part of a race: the calls did not
\* overlap, or the sink serialises its writes itself.
Unraced(h) == ~overlap \/ handlers[h].Out # "buf"

\* The message lines of h's calls that its sink holds.
LinesOf(h) ==
    {j \in DOMAIN sink[OutSink(h)] :
        \E i \in HandleCalls(h) : IsMsgOf(sink[OutSink(h)][j], i)}

\* C4: a Handle call of a StreamHandler or FileHandler with a record below
\* the threshold adds nothing to any sink; a call with a record at or above
\* it adds exactly one line to the handler's sink, a repeated record one
\* line per call; after a sequence of calls the sink holds as many lines
\* of the handler as there were calls at or above the threshold.  (Writes
\* in sequence, or to a sink that serialises them, and accepted by it.)
C4_OneLinePerPassingCall ==
    \A h \in Writers :
        /\ \A i \in HandleCalls(h) : hist[i].st = "done" =>
             /\ hist[i].Level < handlers[h].Level
                    => \A s \in Sinks : \A j \in DOMAIN sink[s] : sink[s][j][3] # i
             /\ (hist[i].Level >= handlers[h].Level /\ hist[i].werr # "err" /\ Unraced(h))
                    => NumLines(sink[OutSink(h)], i) = 1
        /\ (Idle /\ Unraced(h) /\ \A i \in HandleCalls(h) : hist[i].werr # "err")
               => Cardinality(LinesOf(h)) =
                    Cardinality({i \in HandleCalls(h) : hist[i].Level >= handlers[h].Level})

\* Two calls with the same record Level on one FileHandler with a
\* non-zero threshold have each added their line.
C4_Witness ==
    \E h \in FileIds : \E i, j \in DOMAIN hist :
        /\ i # j /\ Idle /\ handlers[h] # Absent /\ handlers[h].Level > 0
        /\ i \in HandleCalls(h) /\ j \in HandleCalls(h)
        /\ hist[i].Level = hist[j].Level /\ hist[i].Level >= handlers[h].Level
        /\ NumLines(sink[OutSink(h)], i) = 1 /\ NumLines(sink[OutSink(h)], j) = 1
        /\ Cardinality(LinesOf(h)) = 2

\* C5: calls of Handle, Emit, Filter and Close on a NullHandler never
\* call the Formatter and never write to a sink; Filter returns true and
\* Close returns nil.
C5_NullHandlerInert ==
    /\ \A i \in DOMAIN hist : handlers[hist[i].h].kind = "null" =>
         /\ hist[i].ferr = "none" /\ hist[i].werr = "none" /\ hist[i].st = "done"
         /\ \A s \in Sinks : \A j \in DOMAIN sink[s] : sink[s][j][3] # i
         /\ hist[i].op = "Filter" => hist[i].val = "true"
    /\ \A h \in NullIds : closeRet[h] \in {"none", "nil"}
    /\ Built \subseteq NullIds => sink = InitSink

\* Handle and Emit were called on the NullHandler and it was closed.
C5_Witness ==
    \E h \in NullIds : \E i, j \in DOMAIN hist :
        /\ hist[i].h = h /\ hist[i].op = "Handle"
        /\ hist[j].h = h /\ hist[j].op = "Emit"
        /\ closeRet[h] = "nil"

\* C6: a Handle call whose Formatter returned an error has, once it has
\* returned, put the string the Formatter returned as one line in the
\* handler's sink (the write accepted and not raced), reported the error
\* in one line on os.Stderr, returned nothing, and left the handler's
\* mutex unlocked.
C6_FormatErrorStillEmits ==
    \A h \in Writers : \A i \in HandleCalls(h) :
        (hist[i].st = "done" /\ hist[i].ferr \notin {"none", "nil"}) =>
            /\ (hist[i].werr = "nil" /\ Unraced(h))
                   => /\ Count(sink[OutSink(h)], <<"partial", handlers[h].Formatter, i>>) = 1
                      /\ NumLines(sink[OutSink(h)], i) = 1
            /\ Count(sink["stderr"], DiagLine(i)) = 1
            /\ hist[i].val = ""
            /\ handlers[h].mu = FALSE
            /\ \A c \in Callers : frame[c].id # i

\* A StreamHandler writing to os.Stderr has handled a record its
\* Formatter failed on: the report and the line are both on os.Stderr.
C6_Witness ==
    \E h \in StreamIds : \E i \in DOMAIN hist :
        /\ handlers[h] # Absent /\ handlers[h].Out = "stderr"
        /\ i \in HandleCalls(h) /\ hist[i].st = "done"
        /\ hist[i].ferr = "format failed" /\ hist[i].werr = "nil"
        /\ sink["stderr"] = <<DiagLine(i), <<"partial", handlers[h].Formatter, i>>>>

\* What a step may do to the FileHandlers: build one on a path that can
\* be opened, or panic on one that cannot.
C7_NewFileHandlerStep ==
    /\ \A h \in FileIds : (handlers[h] = Absent /\ handlers'[h] # Absent) =>
         /\ panicked' = NoPanic
         /\ handlers'[h].Name = h /\ handlers'[h].Level = 0 /\ handlers'[h].Out = h
         /\ handlers'[h].Path \in Paths /\ OpenFile(handlers'[h].Path).err = "nil"
         /\ fds'[h].state = "open" /\ fds'[h].path = handlers'[h].Path
    /\ (panicked = NoPanic /\ panicked' # NoPanic) =>
         /\ OpenFile(panicked').err # "nil"
         /\ handlers' = handlers /\ fds' = fds

\* C7: a NewFileHandler call whose open fails ends in the panic and
\* leaves no handler behind; a call that returns a handler returns one
\* whose Out is the open file at its Path, whose Name is the argument
\* and whose Level is 0, and no handler exists for a path that cannot
\* be opened.
C7_NewFileHandlerPanicsOrBuilds == [][C7_NewFileHandlerStep]_vars

\* The first FileHandler was built, the open for the second failed.
C7_Witness ==
    /\ panicked = BadPath
    /\ handlers["file1"] # Absent /\ fds["file1"].state = "open"
    /\ handlers["file2"] = Absent /\ fds["file2"] = NoFd

InProgress(h) == \E c \in Callers : pc[c] # "idle" /\ frame[c].self.Name = h

\* C8: once Close of a FileHandler has returned and no Handle call on it
\* is in progress, the descriptor is closed and the file holds, in the
\* order they were written, all the lines the handler's writes put there.
C8_CloseKeepsLines ==
    \A h \in FileIds : (closeRet[h] # "none" /\ ~InProgress(h)) =>
        /\ fds[h].state = "closed"
        /\ IsSubSeq(emitted[h], sink[fds[h].path])
        /\ \A i \in HandleCalls(h) :
             hist[i].werr = "nil" => NumLines(sink[fds[h].path], i) = 1

\* A FileHandler was closed after two of its calls had written a line.
C8_Witness ==
    \E h \in FileIds :
        /\ closeRet[h] = "nil" /\ Idle
        /\ Len(emitted[h]) = 2
        /\ \A i \in DOMAIN hist : hist[i].h = h /\ hist[i].werr = "nil"

\* The lines the unsuppressed Handle calls on FileHandlers should have
\* left, in call order, from call i on.
RECURSIVE FileLinesFrom(_)
FileLinesFrom(i) ==
    IF i > Len(hist) THEN <<>>
    ELSE (IF hist[i].op = "Handle" /\ hist[i].h \in FileIds /\ ~hist[i].filtered
          THEN << <<IF hist[i].ferr = "nil" THEN "msg" ELSE "partial",
                    handlers[hist[i].h].Formatter, i>> >>
          ELSE <<>>) \o FileLinesFrom(i + 1)

\* C9: after Handle calls made one after the other on the FileHandlers
\* opened on one path (every write accepted), the file holds what it held
\* before followed by one line per unsuppressed call, in call order.
C9_SharedFileInCallOrder ==
    (Idle /\ ~overlap /\ \A i \in DOMAIN hist : hist[i].werr # "err")
        => sink[GoodPath] = InitSink[GoodPath] \o FileLinesFrom(1)

\* The second FileHandler wrote a line, then the first one.
C9_Witness ==
    /\ Idle /\ ~overlap
    /\ Len(hist) = 2 /\ hist[1].h = "file2" /\ hist[2].h = "file1"
    /\ hist[1].werr = "nil" /\ hist[2].werr = "nil"
    /\ Len(sink[GoodPath]) = 3

\* The handlers whose call, construction or configuration took the step.
Acting ==
    {frame[c].self.Name : c \in {d \in Callers : pc[d] # "idle" /\ pc'[d] # pc[d]}}
        \cup {hist'[i].h : i \in DOMAIN hist' \ DOMAIN hist}
        \cup {h \in HandlerIds : closeRet'[h] # closeRet[h] \/ handlers'[h] # handlers[h]}

\* The message lines of the calls on handler a among the given lines.
OwnLines(lines, calls, a) ==
    SelectSeq(lines, LAMBDA l : \E i \in DOMAIN calls :
                                   calls[i].h = a /\ calls[i].op = "Handle" /\ IsMsgOf(l, i))

C10_Frame ==
    \A a \in HandlerIds \ Acting :
        /\ handlers'[a] = handlers[a]
        /\ closeRet'[a] = closeRet[a]
        /\ a \in FileIds => fds'[a] = fds[a] /\ emitted'[a] = emitted[a]
        /\ \A s \in Sinks : OwnLines(sink'[s], hist', a) = OwnLines(sink[s], hist, a)
        /\ \A c \in Callers : (pc[c] # "idle" /\ frame[c].self.Name = a)
                                  => pc'[c] = pc[c] /\ frame'[c] = frame[c]

C10_NeverBlocked == \A c \in Callers : pc[c] = "lock" => ENABLED Lock(c)

\* C10: a step of one handler (a suppressed or emitted record, a
\* formatter error, a refused write, a Close) changes nothing of another
\* handler: neither its fields, its descriptor, the lines it has written
\* nor the progress of its calls; and a call waiting for its lock can
\* always take it, whatever the other handlers' calls hold.
C10_HandlersIndependent == [][C10_Frame]_vars /\ []C10_NeverBlocked

\* The FileHandler was closed and its write refused, while the
\* StreamHandler has written its line.
C10_Witness ==
    \E i, j \in DOMAIN hist :
        /\ hist[i].h = "stream" /\ hist[i].werr = "nil"
        /\ NumLines(sink[OutSink("stream")], i) = 1
        /\ hist[j].h = "file1" /\ hist[j].werr = "err"
        /\ closeRet["file1"] = "nil"

\* What a step in which a Close returns does: nothing to any sink; on a
\* NullHandler or StreamHandler nothing at all but return nil; on a
\* FileHandler it closes the open descriptor and returns nil, or finds it
\* closed and returns the error of the close.
C11_CloseStep ==
    \A h \in HandlerIds : closeRet'[h] # closeRet[h] =>
        /\ sink' = sink
        /\ IF handlers[h].kind = "file"
           THEN IF fds[h].state = "open"
                THEN fds'[h].state = "closed" /\ closeRet'[h] = "nil"
                ELSE fds'[h] = fds[h] /\ closeRet'[h] = "err"
           ELSE closeRet'[h] = "nil" /\ fds' = fds

C11_AfterClose ==
    /\ \A h \in NullIds \cup StreamIds : closeRet[h] \in {"none", "nil"}
    /\ \A h \in StreamIds : \A i \in HandleCalls(h) :
         (hist[i].closed /\ hist[i].st = "done" /\ ~hist[i].filtered) =>
             /\ handlers[h].Out = "stderr" => hist[i].werr = "nil"
             /\ (hist[i].werr = "nil" /\ Unraced(h))
                    => NumLines(sink[OutSink(h)], i) = 1
    /\ \A h \in FileIds : closeRet[h] # "none" => fds[h].state = "closed"

\* C11: Close of a NullHandler or StreamHandler returns nil and changes
\* no sink, and a Handle call made on the StreamHandler after its Close
\* still puts its line in the stream; Close of a FileHandler closes its
\* file and returns what the close of the file returned, nil when it
\* closed it and the error otherwise.
C11_CloseByOwnership == [][C11_CloseStep]_vars /\ []C11_AfterClose

\* The StreamHandler was closed and a call made after that has its line
\* in the stream; the FileHandler was closed twice and returned the error.
C11_Witness ==
    /\ closeRet["stream"] = "nil" /\ closeRet["file1"] = "err"
    /\ \E i \in HandleCalls("stream") :
         /\ hist[i].closed /\ hist[i].st = "done" /\ hist[i].werr = "nil"
         /\ NumLines(sink[OutSink("stream")], i) = 1

\* The sinks that hold a message line of call i.
AnyLineOf(i) == {s \in Sinks : \E j \in DOMAIN sink[s] : IsMsgOf(sink[s][j], i)}

\* C12: no Handle call returns anything to its caller, whatever happened
\* in Emit; a call whose write the sink refused has returned, has left no
\* line in any sink (the write is not tried again), holds no mutex of the
\* handler and no frame, and a later call on the same handler whose write
\* is accepted puts its line in the sink.
C12_WriteFailureSwallowed ==
    /\ \A i \in DOMAIN hist : hist[i].op \in {"Handle", "Emit"} => hist[i].val = ""
    /\ \A h \in Writers : \A i \in HandleCalls(h) :
         hist[i].werr = "err" =>
             /\ hist[i].st = "done"
             /\ AnyLineOf(i) = {}
             /\ handlers[h].mu = FALSE
             /\ \A c \in Callers : frame[c].id # i
             /\ \A j \in HandleCalls(h) :
                  (j > i /\ hist[j].st = "done" /\ ~hist[j].filtered
                     /\ hist[j].werr = "nil" /\ Unraced(h))
                      => NumLines(sink[OutSink(h)], j) = 1

\* The first write of a FileHandler was refused while its file was open,
\* and the next call on the handler wrote its line.
C12_Witness ==
    \E h \in FileIds :
        /\ handlers[h] # Absent /\ closeRet[h] = "none"
        /\ Len(hist) = 2 /\ hist[1].h = h /\ hist[2].h = h
        /\ hist[1].op = "Handle" /\ hist[1].werr = "err" /\ hist[1].st = "done"
        /\ hist[2].op = "Handle" /\ hist[2].werr = "nil" /\ hist[2].st = "done"
        /\ NumLines(sink[OutSink(h)], 2) = 1

\* The step of a Handle call whose record is suppressed: the call is
\* over in that step, and nothing but the history has changed.
C13_SuppressedStep ==
    \A i \in DOMAIN hist' \ DOMAIN hist :
        (hist'[i].op = "Handle" /\ hist'[i].filtered) =>
            /\ hist'[i].st = "done" /\ hist'[i].ferr = "none" /\ hist'[i].werr = "none"
            /\ UNCHANGED <<handlers, fds, sink, pc, frame, emitted, closeRet, panicked>>

\* A suppressed call never formats or writes, and the calls that were not
\* suppressed are the ones that went on to the lock.
C13_SuppressedInert ==
    \A i \in DOMAIN hist :
        (hist[i].op = "Handle" /\ handlers[hist[i].h].kind \in {"stream", "file"}) =>
            IF hist[i].filtered
            THEN /\ hist[i].st = "done" /\ hist[i].ferr = "none" /\ hist[i].werr = "none"
                 /\ \A s \in Sinks : \A j \in DOMAIN sink[s] : sink[s][j][3] # i
                 /\ \A c \in Callers : frame[c].id # i
            ELSE hist[i].st = "run" => \E c \in Callers : frame[c].id = i /\ pc[c] # "idle"

\* While a caller is inside Emit on a handler, another caller's Handle
\* with a record below the threshold can be made and returns at once.
C13_SuppressedNotBlocked ==
    \A c, d \in Callers : \A h \in Writers :
        (c # d /\ pc[c] = "idle" /\ InEmit(d) /\ frame[d].self.Name = h
           /\ handlers[h].Level > 0 /\ Len(hist) < MaxCalls)
            => ENABLED Handle(c, h, [Level |-> 0, bad |-> FALSE])

\* C13: Handle calls Filter before it takes the lock; a call whose record
\* is suppressed ends there: it takes no lock, calls no Formatter, writes
\* to no sink and changes nothing, and it completes while another caller
\* is inside Emit on the same handler.
C13_FilterOutsideLock ==
    [][C13_SuppressedStep]_vars /\ []C13_SuppressedInert /\ []C13_SuppressedNotBlocked

\* A record was suppressed and its call returned while an earlier call
\* on the same handler was inside Emit, its line not yet written.
C13_Witness ==
    \E d \in Callers : \E i \in DOMAIN hist :
        /\ InEmit(d) /\ frame[d].id < i
        /\ hist[i].op = "Handle" /\ hist[i].h = frame[d].self.Name
        /\ hist[i].filtered /\ hist[i].st = "done"

\* No mutex of a handler is held by a caller that is not in a call, a
\* call that has returned has been through its write, and a caller
\* waiting for its lock can take it.
C14_LockFreeAtRest ==
    /\ \A h \in Writers : handlers[h].mu = FALSE
    /\ \A c \in Callers : pc[c] = "idle" => frame[c] = NoFrame
    /\ \A i \in DOMAIN hist :
         (hist[i].op = "Handle" /\ ~hist[i].filtered /\ hist[i].st = "done"
            /\ handlers[hist[i].h].kind # "null")
             => hist[i].ferr # "none" /\ hist[i].werr # "none"
    /\ \A c \in Callers : pc[c] = "lock" => MutexOf(c) = FALSE

\* C14: under fair scheduling, sink writes and Format calls returning,
\* every Handle call in progress returns: a caller waiting for the lock
\* gets it, a call whose Formatter failed or whose write was refused
\* returns like any other, and a call that has returned holds no mutex.
C14_HandleReturns ==
    /\ \A c \in Callers : (pc[c] # "idle") ~> (pc[c] = "idle")
    /\ []C14_LockFreeAtRest

\* Two calls on one handler have returned, one after a formatter error
\* and a refused write, and every caller is at rest.
C14_Witness ==
    \E h \in Writers :
        /\ Idle /\ Len(hist) = 2 /\ overlap
        /\ hist[1].h = h /\ hist[2].h = h
        /\ hist[1].st = "done" /\ hist[2].st = "done"
        /\ hist[1].ferr = "format failed" /\ hist[1].werr = "err"
        /\ hist[2].werr = "nil"
        /\ handlers[h].mu = FALSE

\* A Close of a FileHandler can be called wherever the callers of Handle
\* are, the lock held or not.
C15_CloseNeverWaits ==
    \A h \in FileIds : (handlers[h] # Absent /\ panicked = NoPanic) => ENABLED Close(h)

\* The step of a Close and the step of a write on the closed file: Close
\* closes the open file under a call in progress and leaves the call
\* where it is; the write of that call is then refused.
C15_RaceStep ==
    /\ \A h \in FileIds : (fds[h].state = "open" /\ closeRet'[h] # closeRet[h]) =>
         /\ fds'[h].state = "closed"
         /\ pc' = pc /\ frame' = frame /\ handlers' = handlers
    /\ \A c \in Callers :
         (pc[c] = "write" /\ pc'[c] = "idle" /\ frame[c].self.Out \in FileIds) =>
             (fds[frame[c].self.Out].state = "closed"
                 => hist'[frame[c].id].werr = "err" /\ sink' = sink)

\* C15: Close of a FileHandler takes no lock and waits for no Handle call:
\* it closes the file also while a caller is between taking the lock and
\* its write, and that write then goes to the closed file and is refused.
C15_CloseUnsynchronised == [][C15_RaceStep]_vars /\ []C15_CloseNeverWaits

\* A caller that took the lock while the file was open is about to write,
\* and the file has been closed by a Close that has returned nil.
C15_Witness ==
    \E c \in Callers : \E h \in FileIds :
        /\ pc[c] = "write" /\ frame[c].self.Out = h /\ MutexOf(c)
        /\ ~hist[frame[c].id].closed
        /\ fds[h].state = "closed" /\ closeRet[h] = "nil"

\* The handler is as its constructor returned it: no field was set since.
Fresh(h) ==
    /\ handlers[h] # Absent
    /\ IF h \in FileIds THEN handlers[h] = NewFileHandlerValue(h, handlers[h].Path)
       ELSE handlers[h] = NewStreamHandlerValue(h)

\* C16 as stated: a handler as NewStreamHandler or NewFileHandler returned
\* it suppresses no record, whatever its Level, and every Handle call on
\* it writes one line (the write accepted).
C16_FreshEmitsEverything ==
    \A h \in Writers : Fresh(h) =>
        \A i \in HandleCalls(h) :
            /\ ~hist[i].filtered
            /\ (hist[i].st = "done" /\ hist[i].werr = "nil")
                   => NumLines(sink[OutSink(h)], i) = 1

\* C16, amended: a handler as NewStreamHandler or NewFileHandler returned
\* it has Level 0; Filter returns false for every record whose Level is 0
\* or more, and Handle writes one line for it (the write accepted); a
\* record whose Level is below 0 is suppressed and leaves no line.
C16_FreshEmitsFromZero ==
    \A h \in Writers : Fresh(h) =>
        /\ handlers[h].Level = 0
        /\ \A i \in HandleCalls(h) :
             /\ hist[i].filtered <=> hist[i].Level < 0
             /\ (hist[i].Level >= 0 /\ hist[i].st = "done" /\ hist[i].werr = "nil")
                    => NumLines(sink[OutSink(h)], i) = 1
             /\ hist[i].Level < 0 => AnyLineOf(i) = {}

\* A StreamHandler as built has written the line of a record of the
\* highest Level, and a FileHandler as built has suppressed a record
\* whose Level is below 0.
C16_Witness ==
    \E i, j \in DOMAIN hist :
        /\ hist[i].op = "Handle" /\ hist[i].h \in StreamIds /\ Fresh(hist[i].h)
        /\ hist[i].Level = MaxLevel /\ hist[i].st = "done"
        /\ NumLines(sink["stderr"], i) = 1
        /\ hist[j].op = "Handle" /\ hist[j].h \in FileIds /\ Fresh(hist[j].h)
        /\ hist[j].Level < 0 /\ hist[j].filtered

\* A step of Handle, Filter, Emit or Close: a call was made, went on or
\* returned.  (The other steps build a handler or set its fields.)
C17_OperationStep ==
    \/ hist' # hist
    \/ closeRet' # closeRet
    \/ pc' # pc
    \/ frame' # frame
    \/ sink' # sink

C17_Frame ==
    /\ C17_OperationStep =>
         /\ handlers' = handlers
         /\ \A h \in FileIds : fds'[h].path = fds[h].path
    /\ \A c \in Callers : (pc[c] # "idle" /\ pc'[c] # "idle") =>
         /\ frame'[c].record = frame[c].record
         /\ frame'[c].id = frame[c].id
         /\ [frame'[c].self EXCEPT !.mu = FALSE] = [frame[c].self EXCEPT !.mu = FALSE]

\* The record a call works on is the one it was given, and the handler
\* it works on has the fields of the handler it was called on.
C17_CallSeesItsArguments ==
    \A c \in Callers : pc[c] # "idle" =>
        /\ frame[c].record.Level = hist[frame[c].id].Level
        /\ [frame[c].self EXCEPT !.mu = FALSE] = handlers[hist[frame[c].id].h]

\* C17: no step of Handle, Filter, Emit or Close changes a field of a
\* handler (Level, Formatter, Out, Name, Path) or the file its Out leads
\* to, and no step of a call changes the record the call was given.
C17_ConfigAndRecordUnchanged == [][C17_Frame]_vars /\ []C17_CallSeesItsArguments

\* A StreamHandler whose Level and Out were set after it was built still
\* has them after a call that wrote a line, a call in progress and a Close.
C17_Witness ==
    \E h \in StreamIds : \E c \in Callers :
        /\ handlers[h] # Absent /\ handlers[h].Level = MaxLevel /\ handlers[h].Out = "buf"
        /\ handlers[h].Formatter = "TerminalFormatter" /\ handlers[h].Name = h
        /\ closeRet[h] = "nil"
        /\ hist # <<>> /\ hist[1].h = h /\ hist[1].st = "done" /\ hist[1].werr = "nil"
        /\ pc[c] = "writing" /\ frame[c].self.Name = h
        /\ frame[c].record.Level = MaxLevel

\* The Handle calls on FileHandlers whose write the file accepted.
C18_Written == {i \in DOMAIN hist : hist[i].h \in FileIds /\ hist[i].werr = "nil"}

\* What a step does to the file: nothing, or one line more at its end,
\* the line of a caller that was at its write; building a FileHandler on
\* the file is a step that does nothing to it.
C18_AppendStep ==
    /\ \/ sink'[GoodPath] = sink[GoodPath]
       \/ \E c \in Callers :
            /\ pc[c] = "write" /\ frame[c].self.Out \in FileIds
            /\ sink'[GoodPath] = Append(sink[GoodPath], frame[c].msg)
    /\ (\E h \in FileIds : handlers[h] = Absent /\ handlers'[h] # Absent)
           => sink' = sink

C18_LineStructured ==
    LET file == sink[GoodPath]
        old == Len(InitSink[GoodPath])
    IN  /\ Len(file) >= old /\ SubSeq(file, 1, old) = InitSink[GoodPath]
        /\ Len(file) = old + Cardinality(C18_Written)
        /\ \A i \in C18_Written : NumLines(file, i) = 1
        /\ \A j \in DOMAIN file : file[j] # GarbledLine
        /\ ~overlap => \A j, k \in (old + 1)..Len(file) : j < k => file[j][3] < file[k][3]

\* C18: the file of a FileHandler only grows, by whole lines at its end:
\* building the handler on an existing file keeps what the file held, each
\* Emit whose write is accepted adds one line after everything the file
\* holds and changes nothing before it, and after calls made one after
\* the other the lines stand in the order of the calls.
C18_FileAppendOnly == [][C18_AppendStep]_vars /\ []C18_LineStructured

\* One FileHandler built on the file that held a line, two calls on it
\* at the same time: the file holds the old line and then their lines.
C18_Witness ==
    /\ Idle /\ overlap /\ Len(hist) = 2
    /\ hist[1].h = "file1" /\ hist[2].h = "file1"
    /\ Len(sink[GoodPath]) = 3 /\ sink[GoodPath][1] = OldLine
    /\ NumLines(sink[GoodPath], 1) = 1 /\ NumLines(sink[GoodPath], 2) = 1

\* The write of a call on a closed file, and a Close of a closed file:
\* the write is refused and changes no sink and no descriptor; the Close
\* returns the error and the file stays closed.
C19_ClosedFileStep ==
    /\ \A c \in Callers :
         (pc[c] = "write" /\ pc'[c] = "idle" /\ frame[c].self.Out \in FileIds
            /\ fds[frame[c].self.Out].state = "closed")
             => /\ sink' = sink /\ fds' = fds /\ emitted' = emitted
                /\ hist'[frame[c].id].werr = "err" /\ hist'[frame[c].id].val = ""
    /\ \A h \in FileIds :
         (fds[h].state = "closed" /\ closeRet'[h] # closeRet[h])
             => closeRet'[h] = "err" /\ fds' = fds /\ sink' = sink

\* A call made on a FileHandler after its Close returned, with a record
\* that is not suppressed: it goes through the lock and the Formatter, and
\* once it has returned there is no line of it in any sink, nothing
\* returned, and on os.Stderr only the report of a formatter error if
\* there was one.
C19_DroppedAfterClose ==
    \A h \in FileIds : \A i \in HandleCalls(h) :
        (hist[i].closed /\ ~hist[i].filtered) =>
            /\ fds[h].state = "closed"
            /\ \A c \in Callers : (frame[c].id = i /\ pc[c] = "lock") => ENABLED Lock(c)
            /\ hist[i].st = "done" =>
                 /\ hist[i].ferr # "none" /\ hist[i].werr = "err" /\ hist[i].val = ""
                 /\ AnyLineOf(i) = {}
                 /\ Count(sink["stderr"], DiagLine(i)) = (IF hist[i].ferr = "nil" THEN 0 ELSE 1)
                 /\ handlers[h].mu = FALSE
                 /\ \A c \in Callers : frame[c].id # i

\* C19: a Handle call made on a FileHandler after its Close has returned
\* formats the record, takes and releases the lock and returns nothing,
\* but its write is refused: no line reaches the file and the loss is
\* reported nowhere; a second Close returns an error and the file stays
\* closed.
C19_ClosedHandlerDropsSilently ==
    /\ [][C19_ClosedFileStep]_vars
    /\ []C19_DroppedAfterClose
    /\ [](\A h \in FileIds : closeRet[h] = "err" => fds[h].state = "closed")

\* A record was handled after the Close of the FileHandler and dropped:
\* the file holds what it held, os.Stderr is empty, and a second Close
\* has returned the error.
C19_Witness ==
    \E h \in FileIds : \E i \in HandleCalls(h) :
        /\ closeRet[h] = "err" /\ fds[h].state = "closed"
        /\ hist[i].closed /\ ~hist[i].filtered /\ hist[i].st = "done"
        /\ hist[i].ferr = "nil" /\ hist[i].werr = "err"
        /\ sink[GoodPath] = InitSink[GoodPath] /\ sink["stderr"] = <<>>

=============================================================================
